---- MODULE Spec2Model ----
(***************************************************************************)
(* The engagement-points bot of src/bot.js as a state machine.             *)
(*                                                                         *)
(* State: the two SQLite tables (users, links), the wall clock, the AI     *)
(* calls that are awaited by suspended free-text handlers, and the         *)
(* messages the last handler run handed to the Telegram API.               *)
(*                                                                         *)
(* JavaScript runs every handler to completion; the only suspension point  *)
(* of the program is the await of src/bot.js:173.  Hence one TLA+ step is   *)
(* one update delivered by the Telegram library (the 'message' listener    *)
(* followed by every onText callback whose pattern matches, in the order   *)
(* of registration), one button press, one cron tick, one completion of    *)
(* an awaited AI call, or the passing of time.  A cron job runs at the     *)
(* very start of the second it is scheduled for: its step moves the clock *)
(* to that second and runs the job.                                        *)
(*                                                                         *)
(* A handler is an operator from a "world" record                          *)
(*   [users, links, calls, sent, debits]                                   *)
(* to the world it leaves behind, so that the handlers run by one update   *)
(* compose.  Users are identified by their Telegram id; chats are private  *)
(* (chat.id = from.id); the username column is not modelled.               *)
(***************************************************************************)
EXTENDS Integers, Sequences, FiniteSets, TLC

VARIABLES
    now,        \* wall clock, seconds (CURRENT_TIMESTAMP, strftime('%s','now'))
    users,      \* table users: id -> [points, last_active, warned]
    links,      \* table links, in order of insertion
    calls,      \* id -> number of free-text handlers suspended at the await
    debits,     \* history: id -> number of deductPoints(id, cost) applied
    ev,         \* the update, tick or completion handled by the last step
    sent        \* the Telegram API calls made by the last step, in order

vars == <<now, users, links, calls, debits, ev, sent>>

----------------------------------------------------------------------------
(* Bounds of the model *)

MaxPoints == 1500      \* no credit is delivered that would exceed it
LowPoints == 500       \* the same, where nobody is to afford a link
MaxDebt   == 200       \* no penalty tick is run that would go below -MaxDebt
MaxLinks  == 2         \* rows of table links
MaxCalls  == 1         \* AI calls in flight
MaxTicks  == 147       \* cron ticks of the run in which no tick is missed

Ids == {1, 2}          \* Telegram identities that talk to the bot

\* The instants at which something happens.  Between two of them the process
\* is down or idle; 172800, 176400 and 352800 are on the hour, 1800, 261000
\* and 264600 on the half hour.
Instants == {0, 1800, 172800, 176400, 261000, 264600, 352800}

----------------------------------------------------------------------------
(* Program constants *)

cost             == 1000      \* const cost, src/bot.js:78
WARN_SECONDS     == 172800    \* src/bot.js:141
PENALTY_SECONDS  == 259200    \* src/bot.js:154
PENALTY_AMOUNT   == 100       \* src/bot.js:158
BROWSE_LIMIT     == 10        \* src/bot.js:92
ADMIN_ID         == 1         \* process.env.ADMIN_ID, src/bot.js:126

\* a faulty variant: two rewards of the table exchanged
pointsMapSwapped(action) ==
    CASE action = "like"    -> 350
      [] action = "comment" -> 200
      [] action = "repost"  -> 500
      [] OTHER              -> 0

\* pointsMap[action] || 0
pointsMap(action) ==
    CASE action = "like"    -> 200
      [] action = "comment" -> 350
      [] action = "repost"  -> 500
      [] OTHER              -> 0

\* pointsMap is an object literal: a key of Object.prototype is found on it
\* too, with a function or an object as its value; that value is truthy, so
\* that the || 0 of src/bot.js:116 does not replace it
InheritedKeys == {"constructor", "toString", "valueOf", "hasOwnProperty"}

Actions == {"like", "comment", "repost", "share", "constructor"}

\* the link ids carried by the buttons that are pressed
ButtonLinkIds == {1, 2}

----------------------------------------------------------------------------
(* Message texts, as sequences of blank-separated words *)

SlashWords == {"/start", "/profile", "/droplink", "/browse", "/stats"}

Texts ==
    { <<>>,                                 \* no text (a photo, a sticker)
      <<"/start">>, <<"/profile">>, <<"/browse">>, <<"/stats">>,
      <<"/droplink">>,                      \* no arguments
      <<"/droplink", "x", "my", "t">>,
      <<"hi">>,
      <<"hi", "/start">> }

\* text.startsWith("/") after trim
StartsWithSlash(text) == text # <<>> /\ Head(text) \in SlashWords

\* regexp.exec(text) of an unanchored one-word pattern such as /\/start/
Matches(word, text) == \E i \in 1..Len(text) : text[i] = word

\* /\/droplink (.+) (.+)/ : the leftmost "/droplink" followed by two groups;
\* the first group is greedy and takes everything up to the last blank.
DroplinkAt(text) ==
    { i \in 1..Len(text) : text[i] = "/droplink" /\ Len(text) >= i + 2 }

MatchesDroplink(text) == DroplinkAt(text) # {}

Min(S) == CHOOSE x \in S : \A y \in S : x <= y

DroplinkUrl(text) ==
    SubSeq(text, Min(DroplinkAt(text)) + 1, Len(text) - 1)

DroplinkTitle(text) == text[Len(text)]

----------------------------------------------------------------------------
(* The world a handler works on *)

World == [users |-> users, links |-> links, calls |-> calls,
          sent |-> <<>>, debits |-> debits]

Msg(to, kind, n) == [to |-> to, kind |-> kind, n |-> n]

\* bot.sendMessage / bot.answerCallbackQuery
sendMessage(w, m) == [w EXCEPT !.sent = Append(@, m)]

----------------------------------------------------------------------------
(* Helper functions, src/bot.js:37-56 *)

\* a faulty variant: the row is inserted with a starting balance
getUserBonus(w, id, t) ==
    IF id \in DOMAIN w.users
    THEN w
    ELSE [w EXCEPT !.users =
            (id :> [points |-> 100, last_active |-> t, warned |-> FALSE]) @@ @]

getUser(w, id, t) ==
    IF id \in DOMAIN w.users
    THEN w
    ELSE [w EXCEPT !.users =
            (id :> [points |-> 0, last_active |-> t, warned |-> FALSE]) @@ @]

\* a faulty variant: the flag is flipped instead of cleared
updateActivityFlip(w, id, t) ==
    IF id \in DOMAIN w.users
    THEN [w EXCEPT !.users[id].last_active = t, !.users[id].warned = ~@]
    ELSE w

updateActivity(w, id, t) ==
    IF id \in DOMAIN w.users
    THEN [w EXCEPT !.users[id].last_active = t, !.users[id].warned = FALSE]
    ELSE w

addPoints(w, id, amount) ==
    IF id \in DOMAIN w.users
    THEN [w EXCEPT !.users[id].points = @ + amount]
    ELSE w

\* a faulty variant: the sign of the update is wrong
deductPointsAdds(w, id, amount) ==
    IF id \in DOMAIN w.users
    THEN [w EXCEPT !.users[id].points = @ + amount,
                   !.debits[id] = IF amount = cost THEN @ + 1 ELSE @]
    ELSE w

deductPoints(w, id, amount) ==
    IF id \in DOMAIN w.users
    THEN [w EXCEPT !.users[id].points = @ - amount,
                   !.debits[id] = IF amount = cost THEN @ + 1 ELSE @]
    ELSE w

\* a faulty variant: the id is the number of rows found, so that the id of
\* the last row is given out again
insertLinkCount(w, id, url, title, t) ==
    [w EXCEPT !.links = Append(@, [id |-> IF Len(@) = 0 THEN 1 ELSE Len(@),
                                   user_id |-> id,
                                   url |-> url, title |-> title,
                                   created_at |-> t])]

\* INSERT INTO links (user_id, url, title): AUTOINCREMENT id, created_at now
insertLink(w, id, url, title, t) ==
    [w EXCEPT !.links = Append(@, [id |-> Len(@) + 1, user_id |-> id,
                                   url |-> url, title |-> title,
                                   created_at |-> t])]

----------------------------------------------------------------------------
(* Command handlers *)

OnStart(w, from, t) ==
    LET w1 == getUser(w, from, t)
    IN  sendMessage(w1, Msg(from, "welcome", w1.users[from].points))

OnProfile(w, from, t) ==
    LET w1 == getUser(w, from, t)
    IN  sendMessage(w1, Msg(from, "profile", w1.users[from].points))

\* a faulty variant: the return of the insufficient-funds branch is missing
OnDroplinkNoReturn(w, from, url, title, t) ==
    LET w1   == getUser(w, from, t)
        user == w1.users[from]
        w1b  == IF user.points < cost
                THEN sendMessage(w1, Msg(from, "insufficient", user.points))
                ELSE w1
        w2   == deductPoints(w1b, from, cost)
        w3   == insertLink(w2, from, url, title, t)
        w4   == updateActivity(w3, from, t)
    IN  sendMessage(w4, Msg(from, "posted", 0))

\* a faulty variant: the activity is touched before the balance is checked
OnDroplinkTouchFirst(w, from, url, title, t) ==
    LET w0   == getUser(w, from, t)
        w1   == updateActivity(w0, from, t)
        user == w1.users[from]
    IN  IF user.points < cost
        THEN sendMessage(w1, Msg(from, "insufficient", user.points))
        ELSE LET w2 == deductPoints(w1, from, cost)
                 w3 == insertLink(w2, from, url, title, t)
             IN  sendMessage(w3, Msg(from, "posted", 0))

\* a faulty variant: the link is recorded and the debit forgotten
OnDroplinkNoDebit(w, from, url, title, t) ==
    LET w1   == getUser(w, from, t)
        user == w1.users[from]
    IN  IF user.points < cost
        THEN sendMessage(w1, Msg(from, "insufficient", user.points))
        ELSE LET w3 == insertLink(w1, from, url, title, t)
                 w4 == updateActivity(w3, from, t)
             IN  sendMessage(w4, Msg(from, "posted", 0))

\* a faulty variant: any balance above zero is taken to pay for the link
OnDroplinkAnyFunds(w, from, url, title, t) ==
    LET w1   == getUser(w, from, t)
        user == w1.users[from]
    IN  IF user.points <= 0
        THEN sendMessage(w1, Msg(from, "insufficient", user.points))
        ELSE LET w2 == deductPoints(w1, from, cost)
                 w3 == insertLink(w2, from, url, title, t)
                 w4 == updateActivity(w3, from, t)
             IN  sendMessage(w4, Msg(from, "posted", 0))

OnDroplink(w, from, url, title, t) ==
    LET w1   == getUser(w, from, t)
        user == w1.users[from]
    IN  IF user.points < cost
        THEN sendMessage(w1, Msg(from, "insufficient", user.points))
        ELSE LET w2 == deductPoints(w1, from, cost)
                 w3 == insertLink(w2, from, url, title, t)
                 w4 == updateActivity(w3, from, t)
             IN  sendMessage(w4, Msg(from, "posted", 0))

\* SELECT * FROM links ORDER BY created_at DESC LIMIT limit.  created_at has a
\* resolution of one second and SQL leaves the order of rows with equal
\* keys open: every order (and every cut at the limit) that respects
\* created_at is a possible answer.
queryRecent(ls, limit) ==
    LET n == Len(ls)
        k == IF n < limit THEN n ELSE limit
        picks == { q \in [1..k -> 1..n] :
                     /\ \A i, j \in 1..k : i # j => q[i] # q[j]
                     /\ \A i, j \in 1..k :
                          i < j => ls[q[i]].created_at >= ls[q[j]].created_at
                     /\ \A x \in 1..n :
                          (\A i \in 1..k : q[i] # x) =>
                             \A i \in 1..k :
                                ls[q[i]].created_at >= ls[x].created_at }
    IN  { [i \in 1..k |-> ls[q[i]]] : q \in picks }

\* links.forEach(link => bot.sendMessage(chat, ..., buttons for link.id))
OnBrowse(w, from, rows) ==
    IF Len(rows) = 0
    THEN sendMessage(w, Msg(from, "nolinks", 0))
    ELSE [w EXCEPT !.sent =
            @ \o [i \in 1..Len(rows) |-> Msg(from, "link", rows[i].id)]]

RECURSIVE SumPoints(_, _)
SumPoints(us, S) ==
    IF S = {} THEN 0
    ELSE LET id == Min(S) IN us[id].points + SumPoints(us, S \ {id})

\* /stats: COUNT(*) of users and links, SUM(points); the reply is keyed
\* here by the total of the points.
\* a faulty variant: the test of the administrator is inverted
OnStatsInverted(w, from) ==
    IF from = ADMIN_ID
    THEN w
    ELSE sendMessage(w, Msg(from, "stats", SumPoints(w.users, DOMAIN w.users)))

OnStats(w, from) ==
    IF from # ADMIN_ID
    THEN w
    ELSE sendMessage(w, Msg(from, "stats", SumPoints(w.users, DOMAIN w.users)))

----------------------------------------------------------------------------
(* Button handler, src/bot.js:112-122 *)

\* a faulty variant: the press counts only on a link of somebody else
OnCallbackQueryChecked(w, from, action, linkId, t) ==
    LET w1     == getUser(w, from, t)
        valid  == \E i \in 1..Len(w.links) :
                     w.links[i].id = linkId /\ w.links[i].user_id # from
        earned == IF valid THEN pointsMap(action) ELSE 0
        w2     == addPoints(w1, from, earned)
        w3     == updateActivity(w2, from, t)
        w4     == sendMessage(w3, Msg(from, "ack", earned))
    IN  sendMessage(w4, Msg(from, "earned", earned))

\* With an inherited key as the action, earned is not a number: the
\* statement of addPoints refuses to bind it and throws, and the handler ends
\* there, after getUser.
OnCallbackQuery(w, from, action, linkId, t) ==
    LET w1     == getUser(w, from, t)
        earned == pointsMap(action)
        w2     == addPoints(w1, from, earned)
        w3     == updateActivity(w2, from, t)
        w4     == sendMessage(w3, Msg(from, "ack", earned))
    IN  IF action \in InheritedKeys
        THEN w1
        ELSE sendMessage(w4, Msg(from, "earned", earned))

----------------------------------------------------------------------------
(* AI conversational handler, src/bot.js:164-195 *)

\* a faulty variant: talking to the assistant counts as activity
OnMessageTouch(w, from, text, t) ==
    IF text = <<>> \/ StartsWithSlash(text)
    THEN w
    ELSE LET w1 == updateActivity(getUser(w, from, t), from, t)
         IN  [w1 EXCEPT !.calls[from] = @ + 1]

\* Up to the await: commands and empty texts are skipped, otherwise the user
\* is fetched (or created) and the request to the model is issued.
OnMessage(w, from, text, t) ==
    IF text = <<>> \/ StartsWithSlash(text)
    THEN w
    ELSE LET w1 == getUser(w, from, t)
         IN  [w1 EXCEPT !.calls[from] = @ + 1]

\* After the await: the reply of the model is relayed ...
OnAiReply(w, chat) ==
    sendMessage([w EXCEPT !.calls[chat] = @ - 1], Msg(chat, "ai", 0))

\* a faulty variant: the catch block logs the error and sends nothing
OnAiErrorSilent(w, chat) == [w EXCEPT !.calls[chat] = @ - 1]

\* ... or the call is rejected, or the response has no choices[0].message
\* (a TypeError at src/bot.js:189), and the catch block sends the fixed
\* fallback.
OnAiError(w, chat) ==
    sendMessage([w EXCEPT !.calls[chat] = @ - 1], Msg(chat, "fallback", 0))

----------------------------------------------------------------------------
(* Cron jobs, src/bot.js:137-161 *)

\* strftime('%s','now') - strftime('%s', last_active)
Elapsed(u, t) == t - u.last_active

\* a faulty variant: the threshold is included
warnSelectGe(us, t) ==
    { id \in DOMAIN us : ~us[id].warned /\ Elapsed(us[id], t) >= WARN_SECONDS }

\* a faulty variant: the warning is due after four days instead of two
warnSelectLate(us, t) ==
    { id \in DOMAIN us :
        ~us[id].warned /\ Elapsed(us[id], t) > 2 * WARN_SECONDS }

warnSelect(us, t) ==
    { id \in DOMAIN us : ~us[id].warned /\ Elapsed(us[id], t) > WARN_SECONDS }

\* a faulty variant: the threshold is included
penaltySelectGe(us, t) ==
    { id \in DOMAIN us : Elapsed(us[id], t) >= PENALTY_SECONDS }

penaltySelect(us, t) ==
    { id \in DOMAIN us : Elapsed(us[id], t) > PENALTY_SECONDS }

RECURSIVE warnEach(_, _)
warnEach(w, S) ==
    IF S = {} THEN w
    ELSE LET id == Min(S)
             w1 == sendMessage(w, Msg(id, "warning", 0))
             w2 == [w1 EXCEPT !.users[id].warned = TRUE]
         IN  warnEach(w2, S \ {id})

OnWarnCron(w, t) == warnEach(w, warnSelect(w.users, t))

RECURSIVE penalizeEach(_, _)
penalizeEach(w, S) ==
    IF S = {} THEN w
    ELSE LET id == Min(S)
             w1 == deductPoints(w, id, PENALTY_AMOUNT)
             w2 == sendMessage(w1, Msg(id, "penalty", 0))
         IN  penalizeEach(w2, S \ {id})

OnPenaltyCron(w, t) == penalizeEach(w, penaltySelect(w.users, t))

----------------------------------------------------------------------------
(* The steps of the program *)

Event(kind, from, text, action, linkId) ==
    [kind |-> kind, from |-> from, text |-> text,
     action |-> action, linkId |-> linkId]

Commit(w, e) ==
    /\ users' = w.users
    /\ links' = w.links
    /\ calls' = w.calls
    /\ debits' = w.debits
    /\ sent' = w.sent
    /\ ev' = e

InFlight == calls[1] + calls[2]

PointsOf(id) == IF id \in DOMAIN users THEN users[id].points ELSE 0

\* processUpdate of a message: the 'message' listener, then every onText
\* callback whose pattern matches, in the order of registration.
Update(from, text) ==
    LET w0 == World
        w1 == OnMessage(w0, from, text, now)
        w2 == IF Matches("/start", text) THEN OnStart(w1, from, now) ELSE w1
        w3 == IF Matches("/profile", text) THEN OnProfile(w2, from, now) ELSE w2
        w4 == IF MatchesDroplink(text)
              THEN OnDroplink(w3, from, DroplinkUrl(text), DroplinkTitle(text), now)
              ELSE w3
    IN  /\ w1.calls # calls => InFlight < MaxCalls
        /\ Len(w4.links) <= MaxLinks
        /\ \E rows \in IF Matches("/browse", text)
                         THEN queryRecent(w4.links, BROWSE_LIMIT)
                         ELSE {<<>>} :
             LET w5 == IF Matches("/browse", text) THEN OnBrowse(w4, from, rows) ELSE w4
                 w6 == IF Matches("/stats", text) THEN OnStats(w5, from) ELSE w5
             IN  Commit(w6, Event("message", from, text, "", 0))
        /\ UNCHANGED now

Callback(from, action, linkId, cap) ==
    /\ PointsOf(from) + pointsMap(action) <= cap
    /\ Commit(OnCallbackQuery(World, from, action, linkId, now),
              Event("callback_query", from, <<>>, action, linkId))
    /\ UNCHANGED now

AiReply(chat) ==
    /\ calls[chat] > 0
    /\ Commit(OnAiReply(World, chat), Event("ai_reply", chat, <<>>, "", 0))
    /\ UNCHANGED now

AiError(chat) ==
    /\ calls[chat] > 0
    /\ Commit(OnAiError(World, chat), Event("ai_error", chat, <<>>, "", 0))
    /\ UNCHANGED now

\* cron "0 * * * *": the clock reaches t, on the hour, and the job runs
WarnTick(t) ==
    /\ t > now
    /\ t % 3600 = 0
    /\ now' = t
    /\ Commit(OnWarnCron(World, t), Event("warn_cron", 0, <<>>, "", 0))

\* cron "30 * * * *": the clock reaches t, on the half hour, and the job runs
PenaltyTick(t) ==
    /\ t > now
    /\ t % 3600 = 1800
    /\ \A id \in penaltySelect(users, t) :
         users[id].points - PENALTY_AMOUNT >= -MaxDebt
    /\ now' = t
    /\ Commit(OnPenaltyCron(World, t), Event("penalty_cron", 0, <<>>, "", 0))

\* Time passes up to a later instant while the process is down: the jobs
\* scheduled up to and at that instant do not run.
Advance(t) ==
    /\ t > now
    /\ now' = t
    /\ ev' = Event("clock", 0, <<>>, "", 0)
    /\ sent' = <<>>
    /\ UNCHANGED <<users, links, calls, debits>>

Init ==
    /\ now = 0
    /\ users = <<>>
    /\ links = <<>>
    /\ calls = [id \in Ids |-> 0]
    /\ debits = [id \in Ids |-> 0]
    /\ ev = Event("boot", 0, <<>>, "", 0)
    /\ sent = <<>>

\* The steps over the instants I, the message texts T and the button
\* actions A, with balances up to cap.
NextOver(I, T, A, cap) ==
    \/ \E from \in Ids, text \in T : Update(from, text)
    \/ \E from \in Ids, action \in A, linkId \in ButtonLinkIds :
         Callback(from, action, linkId, cap)
    \/ \E chat \in Ids : AiReply(chat)
    \/ \E chat \in Ids : AiError(chat)
    \/ \E t \in I : WarnTick(t)
    \/ \E t \in I : PenaltyTick(t)
    \/ \E t \in I : Advance(t)

\* The same steps with the messages sent by the identities S only.
NextFrom(I, S, T, A, cap) ==
    \/ \E from \in S, text \in T : Update(from, text)
    \/ \E from \in Ids, action \in A, linkId \in ButtonLinkIds :
         Callback(from, action, linkId, cap)
    \/ \E chat \in Ids : AiReply(chat)
    \/ \E chat \in Ids : AiError(chat)
    \/ \E t \in I : WarnTick(t)
    \/ \E t \in I : PenaltyTick(t)
    \/ \E t \in I : Advance(t)

\* the identity that writes to the bot; the other one presses buttons only
Posters == {1}

FirstHour == {0, 1800, 3600}

Days == {0, 176400, 261000}

PostActions == {"repost", "share"}

\* The commands: every text, during the first hour (the two cron jobs run
\* and select nobody), with balances that do not reach the posting cost.
Next == NextOver(FirstHour, Texts, PostActions, LowPoints)

Spec == Init /\ [][Next]_vars

\* The rewards: every button, pressed by both identities, during the first
\* hour.
RewardTexts == { <<"hi">> }

RewardNext == NextFrom(FirstHour, Posters, RewardTexts, Actions, MaxPoints)

RewardSpec == Init /\ [][RewardNext]_vars

\* The inactivity sweeps: every instant, a command that leaves the user
\* alone, a free text, and the buttons that touch a user.
SweepTexts == { <<"/start">>, <<"hi">> }

SweepNext == NextOver(Instants, SweepTexts, PostActions, MaxPoints)

SweepSpec == Init /\ [][SweepNext]_vars

\* Posting under interleaving: /droplink, free texts suspended at the await
\* and sweeps that warn and penalize, over three days.
RaceTexts == { <<"/droplink", "x", "my", "t">>, <<"hi">> }

RaceNext == NextOver(Days, RaceTexts, {"repost"}, MaxPoints)

RaceSpec == Init /\ [][RaceNext]_vars

\* Browsing: /droplink and /browse during the first hour.
BrowseTexts == { <<"/droplink", "x", "my", "t">>, <<"/browse">>, <<"hi">> }

BrowseNext == NextOver(FirstHour, BrowseTexts, {"repost"}, MaxPoints)

BrowseSpec == Init /\ [][BrowseNext]_vars

\* Renewed activity: postings and button presses between the sweeps of the
\* third and the fourth day; one identity posts and presses, the other
\* presses.
RenewInstants == {0, 176400, 261000, 264600}

RenewNext == NextFrom(RenewInstants, Posters, RaceTexts, {"repost"}, MaxPoints)

RenewSpec == Init /\ [][RenewNext]_vars

\* The process is up all the time: the clock goes from one cron tick to the
\* next, half an hour later, and the job of that tick runs; no tick is
\* missed.  The users write and press buttons at a few instants only.
TickInstants == { 1800 * k : k \in 1..MaxTicks }

BusyInstants == {0, 1800, 176400}

EveryTickNext ==
    \/ /\ now \in BusyInstants
       /\ \E from \in Ids, text \in RewardTexts : Update(from, text)
    \/ /\ now \in BusyInstants
       /\ \E from \in Ids, action \in PostActions, linkId \in ButtonLinkIds :
            Callback(from, action, linkId, LowPoints)
    \/ \E chat \in Ids : AiReply(chat)
    \/ \E chat \in Ids : AiError(chat)
    \/ \E t \in {now + 1800} \cap TickInstants : WarnTick(t)
    \/ \E t \in {now + 1800} \cap TickInstants : PenaltyTick(t)

EveryTickSpec == Init /\ [][EveryTickNext]_vars

\* The events that are no activity: every text, over three days with their
\* sweeps; one identity writes and presses, the other presses.
FrameNext == NextFrom(Days, Posters, Texts, PostActions, MaxPoints)

FrameSpec == Init /\ [][FrameNext]_vars

\* Pressing again and again: the like button and an unknown button of the
\* link with id 1, before and after that link is posted, by its owner and
\* by the other identity, during the first hour.
PressedLinkIds == {1}

PressActions == {"like", "share", "constructor"}

PressNext ==
    \/ \E from \in Posters, text \in RaceTexts : Update(from, text)
    \/ \E from \in Ids, action \in PressActions, linkId \in PressedLinkIds :
         Callback(from, action, linkId, MaxPoints)
    \/ \E chat \in Ids : AiReply(chat)
    \/ \E chat \in Ids : AiError(chat)
    \/ \E t \in FirstHour : WarnTick(t)
    \/ \E t \in FirstHour : PenaltyTick(t)
    \/ \E t \in FirstHour : Advance(t)

PressSpec == Init /\ [][PressNext]_vars

\* Buttons that are not in the table, over three days with their sweeps.
UnknownActions == {"share", "constructor"}

UnknownNext == NextOver(Days, RewardTexts, UnknownActions, LowPoints)

UnknownSpec == Init /\ [][UnknownNext]_vars

\* The assistant relay: free texts, also one that embeds a command, during
\* the first hour.  An awaited call is settled in the end, by its response
\* or by its rejection (the client gives up a request after its timeout).
AiTexts == { <<"hi">>, <<"hi", "/start">>, <<"/profile">> }

AiNext == NextOver(FirstHour, AiTexts, {"repost"}, LowPoints)

AiSpec ==
    /\ Init
    /\ [][AiNext]_vars
    /\ \A chat \in Ids : WF_vars(AiReply(chat) \/ AiError(chat))

----------------------------------------------------------------------------
(* What the properties speak of *)

\* the balance of id: a user without a record has no points
Bal(us, id) == IF id \in DOMAIN us THEN us[id].points ELSE 0

\* the number of links that id owns
OwnedBy(ls, id) == Cardinality({ i \in 1..Len(ls) : ls[i].user_id = id })

\* the number of messages of a kind sent to a chat
CountMsg(q, to, kind) ==
    Cardinality({ i \in 1..Len(q) : q[i].to = to /\ q[i].kind = kind })

\* a message on which the /droplink handler runs
IsDroplinkEvent(e) == e.kind = "message" /\ MatchesDroplink(e.text)

----------------------------------------------------------------------------
\* C1: whenever the /droplink handler runs for a user, a balance of at least
\* 1000 is lowered by exactly 1000 and the user owns exactly one link more
\* (the table grows by one row); with a balance below 1000 the balance and
\* the number of links stay as they are.
C1_DroplinkDebit ==
    [][\A u \in Ids :
         (IsDroplinkEvent(ev') /\ ev'.from = u) =>
            IF Bal(users, u) >= 1000
            THEN /\ Bal(users', u) = Bal(users, u) - 1000
                 /\ OwnedBy(links', u) = OwnedBy(links, u) + 1
                 /\ Len(links') = Len(links) + 1
            ELSE /\ Bal(users', u) = Bal(users, u)
                 /\ OwnedBy(links', u) = OwnedBy(links, u)
                 /\ Len(links') = Len(links)]_vars

\* a user who had 1500 points has posted a first link and keeps 500
C1_Witness ==
    /\ IsDroplinkEvent(ev)
    /\ Len(sent) = 1
    /\ sent[1].kind = "posted"
    /\ users[ev.from].points = 500
    /\ OwnedBy(links, ev.from) = 1

\* C2: a button press credits the presser with 200 for like, 350 for
\* comment, 500 for repost and nothing for any other kind, and changes the
\* balance of nobody else.
C2_ButtonReward ==
    [][\A u \in Ids :
         (ev'.kind = "callback_query" /\ ev'.from = u) =>
            /\ Bal(users', u) = Bal(users, u) +
                  (IF ev'.action = "like" THEN 200
                   ELSE IF ev'.action = "comment" THEN 350
                   ELSE IF ev'.action = "repost" THEN 500
                   ELSE 0)
            /\ \A v \in Ids \ {u} :
                 /\ Bal(users', v) = Bal(users, v)
                 /\ (v \in DOMAIN users') = (v \in DOMAIN users)]_vars

\* a comment has brought a user from 200 to 550 while the other holds 500
C2_Witness ==
    /\ ev.kind = "callback_query"
    /\ ev.action = "comment"
    /\ users[ev.from].points = 550
    /\ \E v \in DOMAIN users : v # ev.from /\ users[v].points = 500

\* C3 as stated: at a warn tick every user inactive for 172800 seconds or
\* more whose flag is false is sent one warning and gets the flag.
C3_Original ==
    [][ev'.kind = "warn_cron" =>
         \A u \in DOMAIN users :
            (now' - users[u].last_active >= 172800 /\ ~users[u].warned) =>
               /\ CountMsg(sent', u, "warning") = 1
               /\ users'[u].warned]_vars

\* C3, amended: at a warn tick exactly the users inactive for more than
\* 172800 seconds whose flag is false are sent one warning each and get the
\* flag; a user already warned, or active since the tick before, is sent
\* nothing, and nothing else is sent.
C3_WarnSweep ==
    [][ev'.kind = "warn_cron" =>
         /\ DOMAIN users' = DOMAIN users
         /\ \A u \in DOMAIN users :
              LET due == ~users[u].warned
                         /\ now' - users[u].last_active > 172800
              IN  /\ CountMsg(sent', u, "warning") = IF due THEN 1 ELSE 0
                  /\ users'[u].warned = (users[u].warned \/ due)
                  /\ users[u].warned => CountMsg(sent', u, "warning") = 0
                  /\ users[u].last_active > now' - 3600 =>
                        CountMsg(sent', u, "warning") = 0
         /\ \A i \in 1..Len(sent') :
              sent'[i].kind = "warning" /\ sent'[i].to \in DOMAIN users]_vars

\* a tick has warned one user, has passed over one that was warned at an
\* earlier tick, and has passed over one that was active an hour before
C3_Witness ==
    /\ ev.kind = "warn_cron"
    /\ now = 352800
    /\ \E u, v \in DOMAIN users :
         /\ CountMsg(sent, u, "warning") = 0
         /\ users[u].warned
         /\ users[u].last_active = 0
         /\ CountMsg(sent, v, "warning") = 1
         /\ users[v].warned

\* C4 as stated: at a penalty tick every user inactive for 259200 seconds or
\* more loses 100 points, the others nothing.
C4_Original ==
    [][ev'.kind = "penalty_cron" =>
         \A u \in DOMAIN users :
            users'[u].points =
               IF now' - users[u].last_active >= 259200
               THEN users[u].points - 100
               ELSE users[u].points]_vars

\* C4, amended: at a penalty tick exactly the users inactive for more than
\* 259200 seconds lose 100 points, whatever their flag and their balance
\* (which may become negative), at every tick anew; the users at or below
\* the threshold lose nothing; the tick changes no flag and no activity.
C4_PenaltySweep ==
    [][ev'.kind = "penalty_cron" =>
         /\ DOMAIN users' = DOMAIN users
         /\ \A u \in DOMAIN users :
              LET due == now' - users[u].last_active > 259200
              IN  /\ users'[u].points =
                        IF due THEN users[u].points - 100 ELSE users[u].points
                  /\ CountMsg(sent', u, "penalty") = IF due THEN 1 ELSE 0
                  /\ users'[u].warned = users[u].warned
                  /\ users'[u].last_active = users[u].last_active]_vars

\* a second tick in a row has brought an unwarned user from 0 to -200 and
\* has left alone a user who was active in between
C4_Witness ==
    /\ ev.kind = "penalty_cron"
    /\ now = 264600
    /\ \E u, v \in DOMAIN users :
         /\ users[u].points = -200
         /\ ~users[u].warned
         /\ CountMsg(sent, u, "penalty") = 1
         /\ users[v].last_active = 172800
         /\ CountMsg(sent, v, "penalty") = 0

\* C5: in every state each user owns as many links as posting debits of
\* 1000 were applied to that user, and a step changes the links table only
\* by running the /droplink handler for a user whose balance is at least
\* 1000, which in that one step appends one row owned by that user and
\* lowers that balance by 1000; no step applies the debit without the row.
C5_LinkIffDebit ==
    /\ [](\A u \in Ids : OwnedBy(links, u) = debits[u])
    /\ [][/\ links' # links =>
               /\ IsDroplinkEvent(ev')
               /\ Bal(users, ev'.from) >= 1000
               /\ Bal(users', ev'.from) = Bal(users, ev'.from) - 1000
               /\ Len(links') = Len(links) + 1
               /\ SubSeq(links', 1, Len(links)) = links
               /\ links'[Len(links')].user_id = ev'.from
               /\ debits'[ev'.from] = debits[ev'.from] + 1
          /\ debits' # debits => links' # links]_vars

\* a user has posted one link and was then penalized for inactivity: one
\* posting debit, one link, and a balance that other debits have lowered
C5_Witness ==
    \E u \in DOMAIN users :
       /\ debits[u] = 1
       /\ OwnedBy(links, u) = 1
       /\ users[u].points = -100

\* the events whose handlers fetch or create the sender's record: /start,
\* /profile, /droplink with its two arguments, a button press, and a text
\* that is not empty and does not begin with a slash
CreatesRecord(e) ==
    \/ e.kind = "callback_query"
    \/ /\ e.kind = "message"
       /\ \/ Matches("/start", e.text)
          \/ Matches("/profile", e.text)
          \/ MatchesDroplink(e.text)
          \/ (e.text # <<>> /\ ~StartsWithSlash(e.text))

\* C6 as stated: after any event sent by an identity (a message of any kind
\* or a button press) that identity has a user record.
C6_Original ==
    [][ev'.kind \in {"message", "callback_query"} =>
          ev'.from \in DOMAIN users']_vars

\* C6, amended: after /start, /profile, /droplink with its two arguments, a
\* button press or a free text the sender has a user record; no record is
\* ever removed; and a record is created only for the sender of the event,
\* with warned false and with no points other than the reward of the button
\* press that created it.
C6_RecordOnContact ==
    [][/\ CreatesRecord(ev') => ev'.from \in DOMAIN users'
       /\ DOMAIN users \subseteq DOMAIN users'
       /\ \A u \in DOMAIN users' \ DOMAIN users :
            /\ u = ev'.from
            /\ CreatesRecord(ev')
            /\ ~users'[u].warned
            /\ users'[u].last_active = now
            /\ users'[u].points =
                  IF ev'.kind # "callback_query" THEN 0
                  ELSE IF ev'.action = "like" THEN 200
                  ELSE IF ev'.action = "comment" THEN 350
                  ELSE IF ev'.action = "repost" THEN 500
                  ELSE 0]_vars

\* a free text has created the record of its sender, with no points, beside
\* a record that holds 500
C6_Witness ==
    /\ ev.kind = "message"
    /\ ev.text = <<"hi">>
    /\ DOMAIN users = Ids
    /\ users[ev.from].points = 0
    /\ users[ev.from].last_active = now
    /\ now = 3600
    /\ \E v \in Ids : users[v].points = 500 /\ users[v].last_active = 0

\* the one reply of a rejected /droplink
Rejection(u, available) == <<Msg(u, "insufficient", available)>>

\* C7 as stated: a /droplink with a balance below 1000 sends the rejection
\* and leaves the users table and the links table as they were.
C7_Original ==
    [][\A u \in Ids :
         (IsDroplinkEvent(ev') /\ ev'.from = u /\ Bal(users, u) < 1000) =>
            /\ sent' = Rejection(u, Bal(users, u))
            /\ users' = users
            /\ links' = links]_vars

\* C7, amended: a /droplink with a balance below 1000 sends the rejection,
\* leaves the links table and every existing user record as they were, and
\* changes the users table in one case only: a sender without a record gets
\* one, with no points and warned false.
C7_RejectedDroplink ==
    [][\A u \in Ids :
         (IsDroplinkEvent(ev') /\ ev'.from = u /\ Bal(users, u) < 1000) =>
            /\ sent' = Rejection(u, Bal(users, u))
            /\ links' = links
            /\ DOMAIN users' = DOMAIN users \cup {u}
            /\ \A v \in DOMAIN users : users'[v] = users[v]
            /\ u \notin DOMAIN users =>
                  users'[u] = [points |-> 0, last_active |-> now,
                               warned |-> FALSE]]_vars

\* a user with 500 points, last active at an earlier instant, was rejected
C7_Witness ==
    /\ IsDroplinkEvent(ev)
    /\ sent = Rejection(ev.from, 500)
    /\ users[ev.from].last_active < now

\* C8: a /stats from an identity other than the administrator sends nothing
\* and leaves the users table and the links table as they were.
C8_StatsIgnored ==
    [][(/\ ev'.kind = "message"
        /\ ev'.text = <<"/stats">>
        /\ ev'.from # ADMIN_ID) =>
           /\ sent' = <<>>
           /\ users' = users
           /\ links' = links]_vars

\* somebody who is not the administrator and has no record has sent /stats
\* to a bot that knows a user with points
C8_Witness ==
    /\ ev.kind = "message"
    /\ ev.text = <<"/stats">>
    /\ ev.from # ADMIN_ID
    /\ sent = <<>>
    /\ ev.from \notin DOMAIN users
    /\ \E v \in DOMAIN users : users[v].points = 500

\* the link ids of the messages a /browse has sent, in the order sent
BrowsedIds == [i \in 1..Len(sent) |-> sent[i].n]

\* C9: what /browse shows is at most 10 links, the most recently created
\* ones, newest first: a link created later (a greater id) comes before a
\* link created earlier, also when both carry the same created_at.
C9_NewestFirst ==
    (ev.kind = "message" /\ ev.text = <<"/browse">> /\ Len(links) > 0) =>
        /\ Len(sent) <= 10
        /\ Len(sent) = (IF Len(links) < 10 THEN Len(links) ELSE 10)
        /\ \A i \in 1..Len(sent) : sent[i].kind = "link"
        /\ \A i, j \in 1..Len(sent) : i < j => BrowsedIds[i] > BrowsedIds[j]
        /\ \A i \in 1..Len(sent) : BrowsedIds[i] > Len(links) - Len(sent)

\* C10: the affordability check of /droplink is made against the balance of
\* the state in which the debit is applied.  A /droplink step posts a link
\* exactly when the balance of the state before it is at least 1000; from a
\* balance in 1000..1999 it posts one link and leaves a balance in 0..999
\* (on which a further /droplink is rejected); a balance it changes is not
\* negative afterwards; a posting debit is applied only by such a step; and
\* the resumption of a free-text handler after its await changes neither
\* users nor links.
C10_CheckAndDebitAtomic ==
    [][/\ \A u \in Ids :
            (IsDroplinkEvent(ev') /\ ev'.from = u) =>
               /\ (links' # links) = (Bal(users, u) >= 1000)
               /\ (debits'[u] # debits[u]) = (Bal(users, u) >= 1000)
               /\ Bal(users, u) \in 1000..1999 =>
                     /\ OwnedBy(links', u) = OwnedBy(links, u) + 1
                     /\ Bal(users', u) \in 0..999
               /\ Bal(users', u) # Bal(users, u) => Bal(users', u) >= 0
       /\ \A u \in Ids :
            debits'[u] # debits[u] =>
               /\ IsDroplinkEvent(ev') /\ ev'.from = u
               /\ debits'[u] = debits[u] + 1
               /\ Bal(users, u) >= 1000
       /\ ev'.kind \in {"ai_reply", "ai_error"} =>
            users' = users /\ links' = links /\ debits' = debits]_vars

\* while the free-text handler of a user is suspended at its await, that
\* user, who has posted one link from 1500 points, is rejected with the 500
\* that are left
C10_Witness ==
    /\ IsDroplinkEvent(ev)
    /\ calls[ev.from] > 0
    /\ sent = Rejection(ev.from, 500)
    /\ OwnedBy(links, ev.from) = 1
    /\ debits[ev.from] = 1

\* a message that the 'message' listener forwards to the model
IsFreeText(e) ==
    e.kind = "message" /\ e.text # <<>> /\ ~StartsWithSlash(e.text)

\* the replies of the assistant relay (the model's text, the fallback) to u
RelayReplies(q, u) == CountMsg(q, u, "ai") + CountMsg(q, u, "fallback")

\* C11: every forwarded free text opens one call, every call is settled by
\* one step that sends exactly one reply to the chat (the model's text when
\* the call succeeds, the fixed fallback when it fails) and by nothing else,
\* and every open call is settled in the end; the step of a failure changes
\* no user record and no link, and after it the bot still takes a message
\* and a button press of every identity.
C11_OneReplyPerFreeText ==
    /\ [][\A u \in Ids :
            /\ calls'[u] =
                  IF IsFreeText(ev') /\ ev'.from = u THEN calls[u] + 1
                  ELSE IF ev'.kind \in {"ai_reply", "ai_error"} /\ ev'.from = u
                       THEN calls[u] - 1
                       ELSE calls[u]
            /\ RelayReplies(sent', u) =
                  IF ev'.kind \in {"ai_reply", "ai_error"} /\ ev'.from = u
                  THEN 1 ELSE 0
            /\ (ev'.kind = "ai_reply" /\ ev'.from = u) =>
                  sent' = <<Msg(u, "ai", 0)>>
            /\ (ev'.kind = "ai_error" /\ ev'.from = u) =>
                  /\ sent' = <<Msg(u, "fallback", 0)>>
                  /\ users' = users
                  /\ links' = links
                  /\ debits' = debits
            /\ calls'[u] >= 0]_vars
    /\ [](ev.kind = "ai_error" =>
            \A u \in Ids :
               /\ ENABLED Update(u, <<"/profile">>)
               /\ ENABLED Callback(u, "repost", 1, MaxPoints))
    /\ \A u \in Ids :
          (calls[u] > 0) ~>
             (ev.kind \in {"ai_reply", "ai_error"} /\ ev.from = u)

\* the call of a user with 500 points has failed and the fallback was sent,
\* while the other user has said nothing yet
C11_Witness ==
    /\ ev.kind = "ai_error"
    /\ sent = <<Msg(ev.from, "fallback", 0)>>
    /\ calls[ev.from] = 0
    /\ users[ev.from].points = 500
    /\ DOMAIN users = {ev.from}

\* C12: in every state and for every identity, updateActivity applied twice
\* at the present instant gives what one application gives; one application
\* sets last_active to now and warned to false for a user who has a record
\* (and does nothing for an identity without one), keeps that user's points,
\* keeps every other record, and keeps links, calls and debits.
C12_TouchIdempotent ==
    \A u \in Ids :
       LET w1 == updateActivity(World, u, now)
           w2 == updateActivity(w1, u, now)
       IN  /\ w2 = w1
           /\ DOMAIN w1.users = DOMAIN users
           /\ u \in DOMAIN users =>
                 w1.users[u] = [points |-> users[u].points,
                                last_active |-> now, warned |-> FALSE]
           /\ \A v \in DOMAIN users \ {u} : w1.users[v] = users[v]
           /\ [w1 EXCEPT !.users = users] = World

\* a state on which the touch of a user does something: the user is warned,
\* was last active two days ago and holds points, beside a warned user
C12_Witness ==
    \E u, v \in DOMAIN users :
       /\ u # v
       /\ users[u].warned
       /\ users[u].last_active < now
       /\ users[u].points = 500
       /\ users[v].warned
       /\ updateActivity(World, u, now) # World

\* a qualifying action of u: a button press, or a /droplink that u can pay
QualifyingBy(u, e, us) ==
    /\ e.from = u
    /\ \/ e.kind = "callback_query"
       \/ IsDroplinkEvent(e) /\ Bal(us, u) >= 1000

\* C13: a step that is a qualifying action of a user (a button press, a
\* /droplink that is paid) leaves that user with warned false and last_active
\* at the present instant; the last_active of an existing record is moved by
\* nothing else; the warn sweep warns a user only when more than 172800
\* seconds have gone by since last_active, the penalty sweep takes points
\* only when more than 259200 seconds have gone by since last_active; and the
\* flag is raised by the warn sweep only.  Hence a user penalized at earlier
\* ticks is passed over at the ticks that follow renewed activity.
C13_ActiveAgain ==
    [][\A u \in Ids :
         /\ QualifyingBy(u, ev', users) =>
               /\ u \in DOMAIN users'
               /\ ~users'[u].warned
               /\ now' - users'[u].last_active = 0
         /\ u \in DOMAIN users =>
               /\ users'[u].last_active # users[u].last_active =>
                     QualifyingBy(u, ev', users)
               /\ (users'[u].warned /\ ~users[u].warned) =>
                     ev'.kind = "warn_cron"
               /\ CountMsg(sent', u, "warning") > 0 =>
                     /\ ev'.kind = "warn_cron"
                     /\ now' - users[u].last_active > 172800
               /\ CountMsg(sent', u, "penalty") > 0 =>
                     /\ ev'.kind = "penalty_cron"
                     /\ now' - users[u].last_active > 259200
               /\ (ev'.kind = "penalty_cron"
                   /\ users'[u].points # users[u].points) =>
                     now' - users[u].last_active > 259200]_vars

\* C14: no step removes a user record; no step removes a row of links or
\* changes the id, owner, url, title or creation time of a row; and a row
\* that a step adds carries an id greater than the id of every row there was.
C14_AppendOnly ==
    [][/\ DOMAIN users \subseteq DOMAIN users'
       /\ Len(links') >= Len(links)
       /\ \A i \in 1..Len(links) : links'[i] = links[i]
       /\ \A i \in (Len(links) + 1)..Len(links') :
            /\ links'[i].id > 0
            /\ \A j \in 1..(i - 1) : links'[i].id > links'[j].id]_vars

\* the second link was just posted, by another user than the first, while
\* the owner of the first has since been penalized
C14_Witness ==
    /\ IsDroplinkEvent(ev)
    /\ Len(links) = 2
    /\ links[1].user_id # links[2].user_id
    /\ links[2].user_id = ev.from
    /\ links[1].created_at < links[2].created_at
    /\ users[links[1].user_id].points < 0

\* C15: when no cron tick is missed, a penalty tick takes points only from
\* users whose warned flag is true before the tick: within a period of
\* inactivity the warning comes before the first penalty.
C15_WarnedBeforePenalized ==
    [][ev'.kind = "penalty_cron" =>
         \A u \in DOMAIN users :
            (users'[u].points < users[u].points
             \/ CountMsg(sent', u, "penalty") > 0) => users[u].warned]_vars

\* a penalty tick has taken points from a user who was warned and not from
\* a user who was active on the third day and has no warning yet
C15_Witness ==
    /\ ev.kind = "penalty_cron"
    /\ \E u, v \in DOMAIN users :
         /\ CountMsg(sent, u, "penalty") = 1
         /\ users[u].warned
         /\ users[u].points = 400
         /\ CountMsg(sent, v, "penalty") = 0
         /\ ~users[v].warned
         /\ users[v].last_active = 176400

\* C16: a message step in which no /droplink is paid (/start, /profile,
\* /browse, /stats, a rejected /droplink, a free text, a text without
\* words) and the settlement of an AI call leave the record of every
\* existing user as it was; last_active of an existing record moves, and its
\* flag is cleared, only by a qualifying action of that user; and the sweeps
\* go by last_active alone: the warn tick flags every unwarned user more than
\* 172800 seconds inactive, the penalty tick takes 100 points from every
\* user more than 259200 seconds inactive, whatever they have sent since.
C16_NoActivityFrame ==
    [][/\ (ev'.kind = "message" /\ ~QualifyingBy(ev'.from, ev', users)) =>
            \A u \in DOMAIN users : users'[u] = users[u]
       /\ ev'.kind \in {"ai_reply", "ai_error"} => users' = users
       /\ \A u \in DOMAIN users :
            (\/ users'[u].last_active # users[u].last_active
             \/ users[u].warned /\ ~users'[u].warned) =>
               QualifyingBy(u, ev', users)
       /\ ev'.kind = "warn_cron" =>
            \A u \in DOMAIN users :
               (~users[u].warned /\ now' - users[u].last_active > 172800) =>
                  users'[u].warned
       /\ ev'.kind = "penalty_cron" =>
            \A u \in DOMAIN users :
               now' - users[u].last_active > 259200 =>
                  users'[u].points = users[u].points - 100]_vars

\* a user who was warned and penalized for three days without activity has
\* sent a free text that embeds /start, and is as warned and as inactive as
\* before
C16_Witness ==
    /\ ev.kind = "message"
    /\ ev.text = <<"hi", "/start">>
    /\ sent = <<Msg(ev.from, "welcome", 400)>>
    /\ now = 261000
    /\ users[ev.from] = [points |-> 400, last_active |-> 0, warned |-> TRUE]

\* the two API calls of a button press that has earned n points
PressReplies(u, n) == <<Msg(u, "ack", n), Msg(u, "earned", n)>>

\* C17: every button press credits the presser with the reward of its
\* action kind (200 for like, 350 for comment, 500 for repost, else 0) and
\* announces no other amount, whether the link id of the button is the id of a
\* row of links or not, whether that row is owned by the presser or not, and
\* however often the presser was credited before; it leaves the links table
\* and the posting debits as they were.
C17_RewardByKindOnly ==
    [][ev'.kind = "callback_query" =>
         LET u == ev'.from
             reward == IF ev'.action = "like" THEN 200
                       ELSE IF ev'.action = "comment" THEN 350
                       ELSE IF ev'.action = "repost" THEN 500
                       ELSE 0
         IN  /\ Bal(users', u) = Bal(users, u) + reward
             /\ \A i \in 1..Len(sent') : sent'[i].n = reward
             /\ links' = links
             /\ debits' = debits]_vars

\* the owner of link 1 holds 800 points after paying for it: nine likes
\* in all, of which seven at most came before the posting, so that the like
\* button of the owner's own link was pressed by the owner twice at least
C17_Witness ==
    /\ ev.kind = "callback_query"
    /\ ev.action = "like"
    /\ ev.linkId = 1
    /\ Len(links) = 1
    /\ links[1].id = 1
    /\ links[1].user_id = ev.from
    /\ debits[ev.from] = 1
    /\ users[ev.from].points = 800

\* C18: a balance that is not negative becomes negative only at a penalty
\* tick, and a balance is lowered only at a penalty tick or by a /droplink
\* of its owner that finds at least 1000 points; hence in every state a
\* negative balance is the work of the penalty sweep.
C18_NegativeOnlyByPenalty ==
    [][\A u \in Ids :
         /\ (Bal(users, u) >= 0 /\ Bal(users', u) < 0) =>
               ev'.kind = "penalty_cron"
         /\ Bal(users', u) < Bal(users, u) =>
               \/ ev'.kind = "penalty_cron"
               \/ /\ IsDroplinkEvent(ev')
                  /\ ev'.from = u
                  /\ Bal(users, u) >= 1000
                  /\ Bal(users', u) >= 0]_vars

\* a user who posted a link with the last 1000 points and was then penalized
\* twice asks for another link and is turned down with -200 points
C18_Witness ==
    /\ IsDroplinkEvent(ev)
    /\ sent = Rejection(ev.from, -200)
    /\ debits[ev.from] = 1
    /\ users[ev.from].points = -200

\* C19: a button press whose action kind is none of like, comment and
\* repost leaves the presser with a record, with the balance as it was (0
\* for a new record), with last_active at the present instant and warned
\* false, and makes the two API calls of a press, both with the amount 0.
C19_UnknownKindIsActivity ==
    [][(/\ ev'.kind = "callback_query"
        /\ ev'.action \notin {"like", "comment", "repost"}) =>
           LET u == ev'.from
           IN  /\ u \in DOMAIN users'
               /\ users'[u].points = Bal(users, u)
               /\ users'[u].last_active = now'
               /\ ~users'[u].warned
               /\ sent' = PressReplies(u, 0)]_vars

====
